---- MODULE Spec2Model ----
(***************************************************************************)
(* Model of the Tanda SDK request pipeline: TandaClient (configuration,   *)
(* token acquisition, call, handleError) and C2B.request on top of it.    *)
(* One C2B client instance is modelled; the HTTP transport (axios) is the  *)
(* environment: it settles each request handed to it with a response, a   *)
(* "no response" error or a local error.                                  *)
(***************************************************************************)
EXTENDS Integers, Sequences, FiniteSets, TLC

(* ---------------------------------------------------------------------- *)
(* JavaScript values.  A string-typed slot holds a TLA+ string or one of   *)
(* the two markers below; an object is a record holding exactly the        *)
(* properties that are present.                                            *)
(* ---------------------------------------------------------------------- *)
Undefined == "<undefined>"

Null == "<null>"

\* JavaScript truthiness of a string-typed slot.
Truthy(v) == v \notin {Undefined, Null, ""}

\* String(v) and template-literal interpolation of a string-typed slot.
String(v) == IF v = Undefined THEN "undefined" ELSE IF v = Null THEN "null" ELSE v

\* o.k : a missing property reads as undefined.
Prop(o, k) == IF k \in DOMAIN o THEN o[k] ELSE Undefined

\* { ...a, ...b }
Spread(a, b) ==
    [k \in DOMAIN a \cup DOMAIN b |-> IF k \in DOMAIN b THEN b[k] ELSE a[k]]

EmptyObject == [k \in {} |-> Undefined]

\* A decoded response body that is the JSON value null.
NullBody == [jsonNull |-> TRUE]

IsNullBody(b) == "jsonNull" \in DOMAIN b

(* ---------------------------------------------------------------------- *)
(* Bounds of the model.                                                    *)
(* ---------------------------------------------------------------------- *)
\* User operations (call or request) issued on the instance in one run.
MaxOps == 2

(* ---------------------------------------------------------------------- *)
(* Configuration: ConfigSchema and getDefaultConfig.                       *)
(* ---------------------------------------------------------------------- *)
MinClientIdLength == 5

MinClientSecretLength == 5

Modes == {"uat", "live"}

\* process.env as seen by getDefaultConfig.
Environments ==
    { [TANDA_CLIENT_ID |-> Undefined,  TANDA_CLIENT_SECRET |-> Undefined, NODE_ENV |-> Undefined],
      [TANDA_CLIENT_ID |-> "env-client", TANDA_CLIENT_SECRET |-> "abcd", NODE_ENV |-> "development"] }

\* Partial<IConfig> objects handed to the constructor.
PartialConfigs ==
    { EmptyObject,
      [mode |-> "prod"],
      [clientId |-> "abcd"],
      [clientId |-> "client-1", clientSecret |-> "s3cr"],
      [clientId |-> "abcde", clientSecret |-> "abcd"],
      [mode |-> "live", clientId |-> "abcde", clientSecret |-> "secret-1", debug |-> TRUE],
      [mode |-> "live", clientId |-> "abcde", clientSecret |-> Undefined],
      [clientId |-> Undefined],
      [mode |-> "uat", clientId |-> "", clientSecret |-> "secret"] }

getDefaultConfig(config, env) ==
    Spread([mode         |-> "uat",
            clientId     |-> String(env.TANDA_CLIENT_ID),
            clientSecret |-> String(env.TANDA_CLIENT_SECRET),
            debug        |-> (env.NODE_ENV = "development")],
           config)

IsString(v) == v \notin {Undefined, Null}

\* Variant of ConfigSchemaAccepts: the lengths must exceed the minimum.
ConfigSchemaAcceptsLonger(c) ==
    /\ c.mode \in Modes
    /\ IsString(c.clientId) /\ Len(c.clientId) > MinClientIdLength
    /\ IsString(c.clientSecret) /\ Len(c.clientSecret) > MinClientSecretLength
    /\ c.debug \in BOOLEAN

\* ConfigSchema.parse succeeds (otherwise it throws a ZodError).
ConfigSchemaAccepts(c) ==
    /\ c.mode \in Modes
    /\ IsString(c.clientId) /\ Len(c.clientId) >= MinClientIdLength
    /\ IsString(c.clientSecret) /\ Len(c.clientSecret) >= MinClientSecretLength
    /\ c.debug \in BOOLEAN

(* ---------------------------------------------------------------------- *)
(* State.                                                                  *)
(* ---------------------------------------------------------------------- *)
VARIABLES
    client,       \* "none" before new C2B(...), "threw" when the constructor threw, "ready" after it returned
    config,       \* this.config
    c2b,          \* this.orgId, this.endpoint, this.resultUrl
    accessToken,  \* this.accessToken
    tokenWrites,  \* number of assignments to this.accessToken so far
    pending,      \* requests handed to the transport and not settled yet, with their awaiting caller
    sent,         \* kinds of the requests handed to the transport, in order
    uuids,        \* number of identifiers drawn from uuidv4 so far
    returned,     \* per returned FundingResult: the request's id, its input, its fundReference
    last          \* the operation that completed in the last step, with its result

vars == <<client, config, c2b, accessToken, tokenWrites, pending, sent, uuids, returned, last>>

(* ---------------------------------------------------------------------- *)
(* Inputs of the operations.                                               *)
(* ---------------------------------------------------------------------- *)
\* Arguments <<organizationId, resultUrl, endpoint>> of the C2B constructor that
\* go with a configuration.
C2BArguments(partial) ==
    IF "mode" \in DOMAIN partial
    THEN <<"org-1", "https://merchant.example/a", "io/v2/organizations/org-1/requests">>
    ELSE <<"org-2", "https://merchant.example/b", "io/v2/organizations/org-2/requests">>

\* Arguments <<url, options, method>> of a user's call; options is an
\* AxiosRequestConfig.
CallInputs ==
    { <<"wallets/v1/balance", EmptyObject, "GET">>,
      <<"wallets/v1/balance",
        [headers |-> [Accept |-> "application/json"], url |-> "elsewhere", method |-> "PUT"],
        "POST">>,
      <<"wallets/v1/balance", [headers |-> [Authorization |-> "Basic dXNlcjpwdw=="]], "GET">> }

\* Tanda.Models.IB2CRequest objects passed to request.
C2BInputs ==
    { [serviceProviderId |-> "MPESA", merchantWallet |-> "W1",
       mobileNumber |-> "0712345678", amount |-> "100"],
      [serviceProviderId |-> "AIRTELMONEY", merchantWallet |-> "W2",
       mobileNumber |-> "0733123456", amount |-> "250"] }

(* ---------------------------------------------------------------------- *)
(* The transport: what axios makes of a request handed to it.              *)
(* ---------------------------------------------------------------------- *)
\* Decoded response bodies: AccessTokenResponse, TandaAPIResponse, an error body, null.
TokenBodies == { [access_token |-> "tokA"], [access_token |-> ""] }

FundingBodies ==
    { [status |-> "000001", message |-> "Request received", id |-> "TXN1"],
      [status |-> "000002", message |-> "Rejected", id |-> "TXN1"],
      [status |-> "000001", message |-> "Request received"] }

ErrorBody == [message |-> "Unauthorized"]

\* What happens to a request: a response arrives (status, decoded body), nothing
\* arrives, or the request could not be sent.
Outcomes ==
    [kind : {"response"}, status : {200}, data : TokenBodies \cup FundingBodies \cup {NullBody}]
    \cup [kind : {"response"}, status : {199, 500, 501}, data : {ErrorBody}]
    \cup {[kind |-> "noResponse"]}
    \cup {[kind |-> "notSent", message |-> "Invalid URL"]}

\* Variant of validateStatus: the upper bound is exclusive.
validateStatusBelow500(status) == status >= 200 /\ status < 500

\* validateStatus given to axios.create.
validateStatus(status) == status >= 200 /\ status <= 500

\* The AxiosResponse of a response outcome.
AxiosResponse(o) == [status |-> o.status, data |-> o.data]

\* The error client.request rejects with.
AxiosError(o) ==
    CASE o.kind = "response" ->
            [message  |-> "Request failed with status code " \o ToString(o.status),
             request  |-> [sent |-> TRUE],
             response |-> AxiosResponse(o)]
      [] o.kind = "noResponse" ->
            [message |-> "Network Error", request |-> [sent |-> TRUE]]
      [] OTHER ->
            [message |-> o.message]

\* client.request resolves (TRUE) or rejects (FALSE).
Resolves(o) == o.kind = "response" /\ validateStatus(o.status)

(* ---------------------------------------------------------------------- *)
(* TandaClient: BaseTandaException, handleError, call.                     *)
(* ---------------------------------------------------------------------- *)
\* new BaseTandaException(message, code): the constructor passes message (and
\* options) to Error and does nothing with code.
BaseTandaException(message, code) == [name |-> "Error", message |-> message]

\* The TypeError of reading a property of null.
TypeErrorOfNull(property) ==
    [name    |-> "TypeError",
     message |-> "Cannot read properties of null (reading '" \o property \o "')"]

\* handleError(error): the exception it throws.
handleError(error) ==
    IF "response" \in DOMAIN error
    THEN BaseTandaException(
             "Tanda APIs Error: " \o String(Prop(error.response, "message")),
             error.response.status)
    ELSE IF "request" \in DOMAIN error
    THEN BaseTandaException("Tanda APIs: Gateway Timeout", 504)
    ELSE BaseTandaException("Tanda APIs: " \o String(Prop(error, "message")), 500)

\* Variant of callRequest: the Authorization header is built whether or not a
\* token is set.
callRequestAlwaysBearer(token, url, options, method) ==
    Spread(options,
           [method  |-> method,
            url     |-> url,
            headers |-> Spread(IF "headers" \in DOMAIN options
                               THEN options.headers ELSE EmptyObject,
                               [Authorization |-> "Bearer " \o String(token)])])

\* Variant of callRequest: the caller's options are spread last.
callRequestOptionsLast(token, url, options, method) ==
    Spread([method  |-> method,
            url     |-> url,
            headers |-> Spread(IF Truthy(token)
                               THEN [Authorization |-> "Bearer " \o token]
                               ELSE EmptyObject,
                               IF "headers" \in DOMAIN options
                               THEN options.headers ELSE EmptyObject)],
           [k \in DOMAIN options \ {"headers"} |-> options[k]])

\* call, up to the await: the requestOptions handed to client.request.
callRequest(token, url, options, method) ==
    Spread(options,
           [method  |-> method,
            url     |-> url,
            headers |-> Spread(IF "headers" \in DOMAIN options
                               THEN options.headers ELSE EmptyObject,
                               IF Truthy(token)
                               THEN [Authorization |-> "Bearer " \o token]
                               ELSE EmptyObject)])

\* call, after the await: response.data is returned, or handleError throws.
callResult(o) ==
    IF Resolves(o)
    THEN [threw |-> FALSE, value |-> AxiosResponse(o).data]
    ELSE [threw |-> TRUE, error |-> handleError(AxiosError(o))]

(* ---------------------------------------------------------------------- *)
(* TandaClient.generateAccessToken.                                        *)
(* ---------------------------------------------------------------------- *)
TokenUrl == "accounts/v1/oauth/token"

\* The requestOptions generateAccessToken passes to call.
tokenRequestOptions(cfg) ==
    [auth    |-> [username |-> cfg.clientId, password |-> cfg.clientSecret],
     headers |-> ("Content-Type" :> "application/x-www-form-urlencoded"),
     data    |-> "grant_type=client_credentials"]

\* Variant of tokenResult: a response without access_token is an error.
tokenResultRequiringToken(res) ==
    IF res.threw THEN [rejected |-> TRUE, error |-> res.error]
    ELSE IF IsNullBody(res.value)
    THEN [rejected |-> TRUE, error |-> TypeErrorOfNull("access_token")]
    ELSE IF ~Truthy(Prop(res.value, "access_token"))
    THEN [rejected |-> TRUE, error |-> BaseTandaException("Tanda APIs: no access token", 500)]
    ELSE [rejected |-> FALSE, token |-> Prop(res.value, "access_token")]

\* generateAccessToken after its await: either this.accessToken is assigned
\* response.access_token, or the promise rejects (nobody observes it).
tokenResult(res) ==
    IF res.threw THEN [rejected |-> TRUE, error |-> res.error]
    ELSE IF IsNullBody(res.value)
    THEN [rejected |-> TRUE, error |-> TypeErrorOfNull("access_token")]
    ELSE [rejected |-> FALSE, token |-> Prop(res.value, "access_token")]

(* ---------------------------------------------------------------------- *)
(* C2B.request.                                                            *)
(* ---------------------------------------------------------------------- *)
\* Variant of uuidv4: the identifier is drawn once and reused.
uuidv4Once(n) == 1

\* uuidv4(): the n-th identifier drawn; the generator never repeats one.
uuidv4(n) == n + 1

\* Variant of requestPayload: the amount is the first request parameter.
requestPayloadAmountFirst(input, resultUrl, reference) ==
    [commandId           |-> "CustomerPayment",
     serviceProviderId   |-> input.serviceProviderId,
     requestParameters   |->
        << [id |-> "amount",         label |-> "amount",         value |-> input.amount],
           [id |-> "merchantWallet", label |-> "merchantWallet", value |-> input.merchantWallet],
           [id |-> "accountNumber",  label |-> "accountNumber",  value |-> input.mobileNumber] >>,
     referenceParameters |->
        << [id |-> "resultUrl", label |-> "resultUrl", value |-> resultUrl] >>,
     reference           |-> reference]

\* The IC2BRequestPayload built from the input.
requestPayload(input, resultUrl, reference) ==
    [commandId           |-> "CustomerPayment",
     serviceProviderId   |-> input.serviceProviderId,
     requestParameters   |->
        << [id |-> "merchantWallet", label |-> "merchantWallet", value |-> input.merchantWallet],
           [id |-> "accountNumber",  label |-> "accountNumber",  value |-> input.mobileNumber],
           [id |-> "amount",         label |-> "amount",         value |-> input.amount] >>,
     referenceParameters |->
        << [id |-> "resultUrl", label |-> "resultUrl", value |-> resultUrl] >>,
     reference           |-> reference]

\* The TandaFunding object as initialised.
newFunding(input, reference) ==
    [fundReference   |-> reference,
     serviceProvider |-> input.serviceProviderId,
     accountNumber   |-> input.mobileNumber,
     amount          |-> input.amount,
     jsonResponse    |-> Null,
     transactionId   |-> Null,
     responseMessage |-> Null,
     responseStatus  |-> Null]

JsonKeys == <<"status", "message", "id", "access_token">>

RECURSIVE JsonMembers(_, _, _)
JsonMembers(b, keys, first) ==
    IF keys = <<>> THEN ""
    ELSE LET k == Head(keys) IN
         IF k \in DOMAIN b
         THEN (IF first THEN "" ELSE ",") \o "\"" \o k \o "\":\"" \o b[k] \o "\""
              \o JsonMembers(b, Tail(keys), FALSE)
         ELSE JsonMembers(b, Tail(keys), first)

\* JSON.stringify(response)
JsonStringify(b) ==
    IF IsNullBody(b) THEN "null" ELSE "{" \o JsonMembers(b, JsonKeys, TRUE) \o "}"

\* The try block of request after the await: call threw, or reading
\* response.status of a null body threw, or Object.assign updated funding.
requestTry(funding, res) ==
    IF res.threw THEN [threw |-> TRUE, error |-> res.error]
    ELSE IF IsNullBody(res.value)
    THEN [threw |-> TRUE, error |-> TypeErrorOfNull("status")]
    ELSE [threw |-> FALSE,
          value |-> Spread(funding,
                      [jsonResponse    |-> JsonStringify(res.value),
                       responseStatus  |-> Prop(res.value, "status"),
                       responseMessage |-> Prop(res.value, "message"),
                       transactionId   |-> IF Prop(res.value, "status") = "000001"
                                           THEN Prop(res.value, "id") ELSE Undefined])]

\* Variant of requestCatch: the message of the caught error is not used.
requestCatchUnknownError(funding, error) ==
    Spread(funding,
           [responseStatus  |-> IF Truthy(Prop(error, "code")) THEN error.code ELSE "500",
            responseMessage |-> "Unknown Error"])

\* Variant of requestCatch: the caught error is also recorded in jsonResponse.
requestCatchRecordingError(funding, error) ==
    Spread(funding,
           [jsonResponse    |-> String(Prop(error, "message")),
            responseStatus  |-> IF Truthy(Prop(error, "code")) THEN error.code ELSE "500",
            responseMessage |-> IF Truthy(Prop(error, "message"))
                                THEN error.message ELSE "Unknown Error"])

\* The catch block of request.
requestCatch(funding, error) ==
    Spread(funding,
           [responseStatus  |-> IF Truthy(Prop(error, "code")) THEN error.code ELSE "500",
            responseMessage |-> IF Truthy(Prop(error, "message"))
                                THEN error.message ELSE "Unknown Error"])

\* Variant of requestResult: no catch block, an error of the try block
\* propagates to the caller.
requestResultRethrowing(funding, res) ==
    LET t == requestTry(funding, res) IN
    IF t.threw
    THEN [threw |-> TRUE, error |-> t.error]
    ELSE [threw |-> FALSE, value |-> t.value]

\* request after its await: try, catch, return funding.
requestResult(funding, res) ==
    LET t == requestTry(funding, res) IN
    IF t.threw
    THEN [threw |-> FALSE, value |-> requestCatch(funding, t.error)]
    ELSE [threw |-> FALSE, value |-> t.value]

(* ---------------------------------------------------------------------- *)
(* Initial state and actions.                                              *)
(* ---------------------------------------------------------------------- *)
Init ==
    /\ client = "none"
    /\ config = EmptyObject
    /\ c2b = EmptyObject
    /\ accessToken = Undefined
    /\ tokenWrites = 0
    /\ pending = {}
    /\ sent = <<>>
    /\ uuids = 0
    /\ returned = {}
    /\ last = [kind |-> "none"]

\* User operations issued so far (the token request is not one).
UserOps == Len(SelectSeq(sent, LAMBDA k : k # "token"))

\* The token request is handed to the transport and not settled yet.
FetchInFlight == \E q \in pending : q.kind = "token"

\* Variant of Construct: the constructor waits for the token response before
\* it returns.
ConstructAwaitingToken(partial, env, organizationId, resultUrl, endpoint) ==
    /\ client = "none"
    /\ LET merged == getDefaultConfig(partial, env) IN
       IF ConfigSchemaAccepts(merged)
       THEN /\ client' = "ready"
            /\ config' = merged
            /\ c2b' = [orgId |-> organizationId, endpoint |-> endpoint,
                       resultUrl |-> resultUrl]
            /\ pending' = {}
            /\ sent' = <<"token">>
            /\ \E o \in Outcomes :
                  LET t == tokenResult(callResult(o)) IN
                  IF t.rejected
                  THEN UNCHANGED <<accessToken, tokenWrites>>
                  ELSE accessToken' = t.token /\ tokenWrites' = tokenWrites + 1
            /\ last' = [kind |-> "construct", threw |-> FALSE, merged |-> merged,
                        args |-> <<organizationId, resultUrl, endpoint>>]
       ELSE /\ client' = "threw"
            /\ last' = [kind |-> "construct", threw |-> TRUE, merged |-> merged,
                        args |-> <<organizationId, resultUrl, endpoint>>]
            /\ UNCHANGED <<config, c2b, pending, sent, accessToken, tokenWrites>>
    /\ UNCHANGED <<uuids, returned>>

\* Variant of Construct: the constructor does not start generateAccessToken.
ConstructWithoutFetch(partial, env, organizationId, resultUrl, endpoint) ==
    /\ client = "none"
    /\ LET merged == getDefaultConfig(partial, env) IN
       IF ConfigSchemaAccepts(merged)
       THEN /\ client' = "ready"
            /\ config' = merged
            /\ c2b' = [orgId |-> organizationId, endpoint |-> endpoint,
                       resultUrl |-> resultUrl]
            /\ last' = [kind |-> "construct", threw |-> FALSE, merged |-> merged,
                        args |-> <<organizationId, resultUrl, endpoint>>]
       ELSE /\ client' = "threw"
            /\ last' = [kind |-> "construct", threw |-> TRUE, merged |-> merged,
                        args |-> <<organizationId, resultUrl, endpoint>>]
            /\ UNCHANGED <<config, c2b>>
    /\ UNCHANGED <<pending, sent, accessToken, tokenWrites, uuids, returned>>

\* new C2B(config, organizationId, resultUrl, endpoint): the TandaClient
\* constructor merges and validates the configuration (a ZodError aborts the
\* construction), creates the axios instance and starts generateAccessToken,
\* which runs up to the await inside call; then the C2B fields are set.
Construct(partial, env, organizationId, resultUrl, endpoint) ==
    /\ client = "none"
    /\ LET merged == getDefaultConfig(partial, env) IN
       IF ConfigSchemaAccepts(merged)
       THEN /\ client' = "ready"
            /\ config' = merged
            /\ c2b' = [orgId |-> organizationId, endpoint |-> endpoint,
                       resultUrl |-> resultUrl]
            /\ pending' = {[id |-> 1, kind |-> "token", tokenAtCall |-> accessToken,
                            fetchInFlight |-> FALSE,
                            url |-> TokenUrl, method |-> "POST",
                            options |-> tokenRequestOptions(merged),
                            request |-> callRequest(accessToken, TokenUrl,
                                                    tokenRequestOptions(merged), "POST")]}
            /\ sent' = <<"token">>
            /\ last' = [kind |-> "construct", threw |-> FALSE, merged |-> merged,
                        args |-> <<organizationId, resultUrl, endpoint>>]
       ELSE /\ client' = "threw"
            /\ last' = [kind |-> "construct", threw |-> TRUE, merged |-> merged,
                        args |-> <<organizationId, resultUrl, endpoint>>]
            /\ UNCHANGED <<config, c2b, pending, sent>>
    /\ UNCHANGED <<accessToken, tokenWrites, uuids, returned>>

\* call(url, options, method) by a user of the instance, up to its await.
Call(url, options, method) ==
    /\ client = "ready"
    /\ UserOps < MaxOps
    /\ pending' = pending \cup
          {[id |-> Len(sent) + 1, kind |-> "call", tokenAtCall |-> accessToken,
            fetchInFlight |-> FetchInFlight,
            url |-> url, method |-> method,
            options |-> options,
            request |-> callRequest(accessToken, url, options, method)]}
    /\ sent' = Append(sent, "call")
    /\ last' = [kind |-> "dispatch", id |-> Len(sent) + 1]
    /\ UNCHANGED <<client, config, c2b, accessToken, tokenWrites, uuids, returned>>

\* request(input), up to the await of its call.
Request(input) ==
    /\ client = "ready"
    /\ UserOps < MaxOps
    /\ LET reference  == uuidv4(uuids)
           parameters == requestPayload(input, c2b.resultUrl, reference)
           funding    == newFunding(input, reference)
       IN  pending' = pending \cup
              {[id |-> Len(sent) + 1, kind |-> "request", tokenAtCall |-> accessToken,
                fetchInFlight |-> FetchInFlight,
                input |-> input, funding |-> funding,
                url |-> c2b.endpoint, method |-> "POST",
                options |-> [data |-> parameters],
                request |-> callRequest(accessToken, c2b.endpoint,
                                        [data |-> parameters], "POST")]}
    /\ uuids' = uuids + 1
    /\ sent' = Append(sent, "request")
    /\ last' = [kind |-> "dispatch", id |-> Len(sent) + 1]
    /\ UNCHANGED <<client, config, c2b, accessToken, tokenWrites, returned>>

\* Variant of SettleToken: after storing a token the client fetches a fresh
\* one (a refresh), through the same path.
SettleTokenRefreshing(p, o) ==
    /\ p \in pending /\ p.kind = "token"
    /\ LET t == tokenResult(callResult(o)) IN
       /\ IF t.rejected
          THEN UNCHANGED <<accessToken, tokenWrites>> /\ pending' = pending \ {p}
          ELSE /\ accessToken' = t.token /\ tokenWrites' = tokenWrites + 1
               /\ pending' = IF tokenWrites < 2 THEN pending ELSE pending \ {p}
       /\ last' = [kind |-> "token", id |-> p.id, op |-> p, outcome |-> o, result |-> t]
    /\ UNCHANGED <<client, config, c2b, sent, uuids, returned>>

\* Variant of SettleToken: a failed acquisition puts the instance out of use.
SettleTokenDisabling(p, o) ==
    /\ p \in pending /\ p.kind = "token"
    /\ LET t == tokenResult(callResult(o)) IN
       /\ IF t.rejected
          THEN UNCHANGED <<accessToken, tokenWrites>> /\ client' = "threw"
          ELSE accessToken' = t.token /\ tokenWrites' = tokenWrites + 1 /\ client' = client
       /\ last' = [kind |-> "token", id |-> p.id, op |-> p, outcome |-> o, result |-> t]
    /\ pending' = pending \ {p}
    /\ UNCHANGED <<config, c2b, sent, uuids, returned>>

\* The token request settles and generateAccessToken resumes.
SettleToken(p, o) ==
    /\ p \in pending /\ p.kind = "token"
    /\ LET t == tokenResult(callResult(o)) IN
       /\ IF t.rejected
          THEN UNCHANGED <<accessToken, tokenWrites>>
          ELSE accessToken' = t.token /\ tokenWrites' = tokenWrites + 1
       /\ last' = [kind |-> "token", id |-> p.id, op |-> p, outcome |-> o, result |-> t]
    /\ pending' = pending \ {p}
    /\ UNCHANGED <<client, config, c2b, sent, uuids, returned>>

\* Variant of SettleCall: a call whose request failed hands the same request
\* to the transport once more instead of throwing.
SettleCallRetrying(p, o) ==
    /\ p \in pending /\ p.kind = "call"
    /\ IF ~Resolves(o) /\ UserOps < MaxOps
       THEN /\ last' = [kind |-> "retry", id |-> p.id]
            /\ pending' = (pending \ {p}) \cup {[p EXCEPT !.id = Len(sent) + 1]}
            /\ sent' = Append(sent, "call")
       ELSE /\ last' = [kind |-> "call", id |-> p.id, op |-> p, outcome |-> o,
                        result |-> callResult(o)]
            /\ pending' = pending \ {p}
            /\ sent' = sent
    /\ UNCHANGED <<client, config, c2b, accessToken, tokenWrites, uuids, returned>>

\* A user's call settles: it returns the body or throws.
SettleCall(p, o) ==
    /\ p \in pending /\ p.kind = "call"
    /\ last' = [kind |-> "call", id |-> p.id, op |-> p, outcome |-> o,
                result |-> callResult(o)]
    /\ pending' = pending \ {p}
    /\ UNCHANGED <<client, config, c2b, accessToken, tokenWrites, sent, uuids, returned>>

\* The call of a request settles and request resumes and returns.
SettleRequest(p, o) ==
    /\ p \in pending /\ p.kind = "request"
    /\ LET r == requestResult(p.funding, callResult(o)) IN
       /\ last' = [kind |-> "request", id |-> p.id, op |-> p, outcome |-> o,
                   call |-> callResult(o), result |-> r]
       /\ returned' = IF r.threw THEN returned
                      ELSE returned \cup {[id |-> p.id, input |-> p.input,
                                            fundReference |-> r.value.fundReference]}
    /\ pending' = pending \ {p}
    /\ UNCHANGED <<client, config, c2b, accessToken, tokenWrites, sent, uuids>>

Next ==
    \/ \E partial \in PartialConfigs, env \in Environments :
          LET args == C2BArguments(partial) IN
          Construct(partial, env, args[1], args[2], args[3])
    \/ \E in \in CallInputs : Call(in[1], in[2], in[3])
    \/ \E input \in C2BInputs : Request(input)
    \/ \E p \in pending, o \in Outcomes : SettleToken(p, o)
    \/ \E p \in pending, o \in Outcomes : SettleCall(p, o)
    \/ \E p \in pending, o \in Outcomes : SettleRequest(p, o)

Spec == Init /\ [][Next]_vars

(* ---------------------------------------------------------------------- *)
(* TandaHelper.serviceProvider: the four regular expressions and the       *)
(* classification.  A pattern is a sequence of character classes; a        *)
(* regular expression is a set of alternative patterns, each preceded by   *)
(* an optional "0", matched anywhere in the string or, with $, at its end. *)
(* ---------------------------------------------------------------------- *)
Digits == {"0", "1", "2", "3", "4", "5", "6", "7", "8", "9"}

\* [0-9]{6}
SixDigits == <<Digits, Digits, Digits, Digits, Digits, Digits>>

\* 7([01249][0-9] | 5[789] | 6[89]) | 1[1][0-5], then [0-9]{6}
SafaricomPatterns ==
    { <<{"7"}, {"0", "1", "2", "4", "9"}, Digits>> \o SixDigits,
      <<{"7"}, {"5"}, {"7", "8", "9"}>> \o SixDigits,
      <<{"7"}, {"6"}, {"8", "9"}>> \o SixDigits,
      <<{"1"}, {"1"}, {"0", "1", "2", "3", "4", "5"}>> \o SixDigits }

\* 7(3[0-9] | 5[0-6] | 8[5-9]) | 1[0][0-2], then [0-9]{6}
AirtelPatterns ==
    { <<{"7"}, {"3"}, Digits>> \o SixDigits,
      <<{"7"}, {"5"}, {"0", "1", "2", "3", "4", "5", "6"}>> \o SixDigits,
      <<{"7"}, {"8"}, {"5", "6", "7", "8", "9"}>> \o SixDigits,
      <<{"1"}, {"0"}, {"0", "1", "2"}>> \o SixDigits }

\* 77[0-9][0-9]{6}
TelkomPatterns == { <<{"7"}, {"7"}, Digits>> \o SixDigits }

\* 76[3-6][0-9]{6}
EquitelPatterns == { <<{"7"}, {"6"}, {"3", "4", "5", "6"}>> \o SixDigits }

\* The pattern matches the characters of s from position i on.
MatchesAt(s, i, pat) ==
    /\ i >= 1 /\ i + Len(pat) - 1 <= Len(s)
    /\ \A k \in 1..Len(pat) : SubSeq(s, i + k - 1, i + k - 1) \in pat[k]

\* regex.test(s) for /0?(alternatives)/, or /0?(alternatives)$/ when atEnd.
RegexTest(s, alternatives, atEnd) ==
    \E i \in 1..Len(s), pat \in alternatives :
        \E j \in {i, i + 1} :
            /\ j = i \/ SubSeq(s, i, i) = "0"
            /\ MatchesAt(s, j, pat)
            /\ atEnd => j + Len(pat) - 1 = Len(s)

safaricom(msisdn) == RegexTest(msisdn, SafaricomPatterns, TRUE)

airtel(msisdn) == RegexTest(msisdn, AirtelPatterns, TRUE)

telkom(msisdn) == RegexTest(msisdn, TelkomPatterns, FALSE)

equitel(msisdn) == RegexTest(msisdn, EquitelPatterns, FALSE)

\* Variant of serviceProvider: the airtime branch also tries the Equitel pattern.
serviceProviderEquitelAirtime(msisdn, airtime) ==
    IF ~airtime
    THEN IF safaricom(msisdn) THEN "MPESA"
         ELSE IF airtel(msisdn) THEN "AIRTELMONEY"
         ELSE IF telkom(msisdn) THEN "TKASH"
         ELSE IF equitel(msisdn) THEN "EQUITEL"
         ELSE "0"
    ELSE IF safaricom(msisdn) THEN "SAFARICOM"
         ELSE IF airtel(msisdn) THEN "AIRTEL"
         ELSE IF telkom(msisdn) THEN "TELKOM"
         ELSE IF equitel(msisdn) THEN "EQUITEL"
         ELSE "0"

\* TandaHelper.serviceProvider(msisdn, airtime)
serviceProvider(msisdn, airtime) ==
    IF ~airtime
    THEN IF safaricom(msisdn) THEN "MPESA"
         ELSE IF airtel(msisdn) THEN "AIRTELMONEY"
         ELSE IF telkom(msisdn) THEN "TKASH"
         ELSE IF equitel(msisdn) THEN "EQUITEL"
         ELSE "0"
    ELSE IF safaricom(msisdn) THEN "SAFARICOM"
         ELSE IF airtel(msisdn) THEN "AIRTEL"
         ELSE IF telkom(msisdn) THEN "TELKOM"
         ELSE "0"

\* Nine-digit subscriber numbers, one or more per branch of each pattern and
\* some that no pattern covers.
SubscriberNumbers ==
    { "712345678", "799999999", "757000000", "768123456", "110123456", "115000001",
      "733123456", "750123456", "756999999", "785123456", "100123456", "102000000",
      "771234567", "779000000", "763123456", "766999999",
      "760123456", "767123456", "116123456", "103123456", "780123456", "784999999",
      "612345678" }

\* Phone-number strings given to serviceProvider.
Msisdns ==
    { "0" \o n : n \in SubscriberNumbers }
    \cup { "254" \o n : n \in SubscriberNumbers }
    \cup { "", "0", "abcdefghij", "071234567", "0712345678 ", "07712345678",
           "0763123456x", "0771234567-", "07631234560733123456",
           "07712345670763123456", "x0763123456" }

\* A phone number and a flag are chosen.
InitCarrier ==
    /\ client = "none"
    /\ config = EmptyObject
    /\ c2b = EmptyObject
    /\ accessToken = Undefined
    /\ tokenWrites = 0
    /\ pending = {}
    /\ sent = <<>>
    /\ uuids = 0
    /\ returned = {}
    /\ last \in [kind : {"msisdn"}, msisdn : Msisdns, airtime : BOOLEAN]

\* TandaHelper.serviceProvider is applied to them.
ServiceProvider ==
    /\ last.kind = "msisdn"
    /\ last' = [kind |-> "serviceProvider", msisdn |-> last.msisdn,
                airtime |-> last.airtime,
                result |-> serviceProvider(last.msisdn, last.airtime)]
    /\ UNCHANGED <<client, config, c2b, accessToken, tokenWrites, pending, sent,
                   uuids, returned>>

NextCarrier == ServiceProvider

SpecCarrier == InitCarrier /\ [][NextCarrier]_vars

(* ---------------------------------------------------------------------- *)
(* Properties.                                                             *)
(* ---------------------------------------------------------------------- *)
\* The headers of the options a caller passed to call.
CallerHeaders(options) ==
    IF "headers" \in DOMAIN options THEN options.headers ELSE EmptyObject

HasAuthorization(request) == "Authorization" \in DOMAIN request.headers

CarriesToken(request, token) ==
    HasAuthorization(request) /\ request.headers.Authorization = "Bearer " \o token

\* C1 as stated: every request handed to the transport carries
\* 'Authorization: Bearer <token>' when the token was set at the moment of the
\* call, and has no Authorization header at all when it was not.
C1_AuthorizationIffTokenSet ==
    \A p \in pending :
        IF Truthy(p.tokenAtCall)
        THEN CarriesToken(p.request, p.tokenAtCall)
        ELSE ~HasAuthorization(p.request)

\* C1 amended: every request handed to the transport carries
\* 'Authorization: Bearer <token>' when the token was set (a non-empty string)
\* at the moment of the call; when it was not, call adds no Authorization header
\* (the headers are exactly the caller's, so a header is there only if the
\* caller's options supplied it) and the request is still dispatched.
C1_BearerAddedIffTokenSet ==
    /\ \A p \in pending :
          IF Truthy(p.tokenAtCall)
          THEN CarriesToken(p.request, p.tokenAtCall)
          ELSE p.request.headers = CallerHeaders(p.options)
    /\ last.kind = "dispatch" => \E p \in pending : p.id = last.id

\* C1 witness: a call made with the token unset is in flight without any
\* Authorization header, beside one made with the token set.
C1_Witness ==
    \E p, q \in pending :
        /\ p.kind = "call" /\ ~Truthy(p.tokenAtCall) /\ ~HasAuthorization(p.request)
        /\ q.kind = "call" /\ Truthy(q.tokenAtCall) /\ CarriesToken(q.request, q.tokenAtCall)

\* C2 as stated: when the constructor returns the token is unset and the token
\* request is in flight; a call or request issued while it is in flight is
\* dispatched without an Authorization header; one issued after the fetch has
\* stored a token carries that token.
C2_NoAuthorizationWhileFetching ==
    /\ (last.kind = "construct" /\ ~last.threw) =>
           (accessToken = Undefined /\ tokenWrites = 0 /\ FetchInFlight)
    /\ \A p \in pending :
          /\ (p.kind # "token" /\ p.fetchInFlight) => ~HasAuthorization(p.request)
          /\ (p.kind # "token" /\ ~p.fetchInFlight /\ Truthy(p.tokenAtCall)) =>
                 CarriesToken(p.request, p.tokenAtCall)

\* C2 amended: when the constructor returns the token is unset and the token
\* request is in flight; a call or request issued while it is in flight is
\* dispatched with no Authorization header but one the caller's own options
\* supplied (a C2B request never has one); one issued after the fetch has stored
\* a token carries that token.
C2_NoBearerWhileFetching ==
    /\ (last.kind = "construct" /\ ~last.threw) =>
           (accessToken = Undefined /\ tokenWrites = 0 /\ FetchInFlight)
    /\ \A p \in pending :
          /\ (p.kind # "token" /\ p.fetchInFlight) =>
                 (/\ p.tokenAtCall = Undefined
                  /\ p.request.headers = CallerHeaders(p.options)
                  /\ p.kind = "request" => ~HasAuthorization(p.request))
          /\ (p.kind # "token" /\ ~p.fetchInFlight /\ Truthy(p.tokenAtCall)) =>
                 CarriesToken(p.request, p.tokenAtCall)

\* C2 witness: a request issued during the fetch is still in flight, without
\* Authorization header, when a call issued after the token was stored carries it.
C2_Witness ==
    \E p, q \in pending :
        /\ p.kind = "request" /\ p.fetchInFlight /\ ~HasAuthorization(p.request)
        /\ q.kind = "call" /\ ~q.fetchInFlight /\ CarriesToken(q.request, accessToken)

\* The token state machine of the instance.
TokenState ==
    IF client # "ready" THEN "Unset"
    ELSE IF FetchInFlight THEN "Pending"
    ELSE IF tokenWrites > 0 THEN "Set" ELSE "Failed"

TokenTransitions ==
    { <<"Unset", "Pending">>, <<"Pending", "Set">>, <<"Pending", "Failed">> }

\* C3: the token goes Unset -> Pending -> Set or Failed and never leaves Set or
\* Failed; the field is written at most once, only when the background fetch
\* settles (a call or request, issued or settling, leaves it unchanged), and
\* once written it keeps its value.
C3_TokenFetchedOnce ==
    [][ /\ TokenState' # TokenState => <<TokenState, TokenState'>> \in TokenTransitions
        /\ (accessToken' # accessToken \/ tokenWrites' # tokenWrites) =>
               (/\ TokenState = "Pending" /\ TokenState' = "Set"
                /\ last'.kind = "token"
                /\ tokenWrites = 0 /\ tokenWrites' = 1)
        /\ TokenState \in {"Set", "Failed"} =>
               (TokenState' = TokenState /\ accessToken' = accessToken)
        /\ last'.kind \in {"dispatch", "call", "request"} =>
               (accessToken' = accessToken /\ tokenWrites' = tokenWrites)
      ]_vars

\* C3 witness: the token was set, and a request issued and settled afterwards
\* left it set.
C3_Witness ==
    /\ TokenState = "Set" /\ Truthy(accessToken)
    /\ last.kind = "request" /\ Truthy(last.op.tokenAtCall)

NonNull(v) == v \notin {Null, Undefined}

C5_TransactionIdIffSuccess ==
    (/\ last.kind = "request" /\ ~last.call.threw
     /\ "status" \in DOMAIN last.call.value) =>
        IF last.call.value.status = "000001"
        THEN last.result.value.transactionId = Prop(last.call.value, "id")
        ELSE last.result.value.transactionId = Null

\* The code the exception of a failed call is to carry.
ExpectedCode(o) ==
    CASE o.kind = "response"   -> o.status
      [] o.kind = "noResponse" -> 504
      [] OTHER                 -> 500

\* The message the exception of a failed call is to carry.
ExpectedMessage(o) ==
    CASE o.kind = "response"   -> "Tanda APIs Error: " \o String(Prop(o.data, "message"))
      [] o.kind = "noResponse" -> "Tanda APIs: Gateway Timeout"
      [] OTHER                 -> "Tanda APIs: " \o o.message

\* C6 as stated: a failed call raises one exception carrying a message and an
\* HTTP status code: the upstream message and status for an error response,
\* "Gateway Timeout" and 504 when no response was received, the local error's
\* message and 500 when the request could not be sent; a failed call returns
\* no value.
C6_ExceptionCarriesMessageAndCode ==
    last.kind = "call" =>
        /\ ~Resolves(last.outcome) => last.result.threw
        /\ last.result.threw =>
              /\ "message" \in DOMAIN last.result.error
              /\ "code" \in DOMAIN last.result.error
              /\ last.result.error.code = ExpectedCode(last.outcome)
              /\ last.result.error.message = ExpectedMessage(last.outcome)

\* C7 as stated: when the call of request fails, responseStatus is the code
\* carried by the raised error (the upstream status, 504 for no response, 500
\* for a local error) and responseMessage is the error's message.
C7_FailureStatusIsErrorCode ==
    (last.kind = "request" /\ last.call.threw) =>
        /\ last.result.value.responseStatus = ToString(ExpectedCode(last.outcome))
        /\ last.result.value.responseMessage = last.call.error.message

StartsWith(s, prefix) ==
    Len(s) >= Len(prefix) /\ SubSeq(s, 1, Len(prefix)) = prefix

\* Which of the three raise sites of handleError an exception comes from.
ErrorKind(e) ==
    IF StartsWith(e.message, "Tanda APIs Error: ") THEN "response"
    ELSE IF e.message = "Tanda APIs: Gateway Timeout" THEN "noResponse"
    ELSE IF StartsWith(e.message, "Tanda APIs: ") THEN "notSent"
    ELSE "other"

\* C8: call returns the decoded body exactly when a response arrives with a
\* status in [200,500]; for any other status, for no response and for a
\* request that could not be sent it raises the error of the matching kind.
C8_ReturnsIffStatusIn200To500 ==
    last.kind = "call" =>
        /\ ~last.result.threw <=>
              (/\ last.outcome.kind = "response"
               /\ last.outcome.status >= 200 /\ last.outcome.status <= 500)
        /\ ~last.result.threw => last.result.value = last.outcome.data
        /\ last.result.threw => ErrorKind(last.result.error) = last.outcome.kind

\* C8 witness: a call answered with status 500 has returned the body.
C8_Witness ==
    /\ last.kind = "call" /\ last.outcome.kind = "response"
    /\ last.outcome.status = 500 /\ ~last.result.threw
    /\ last.result.value = ErrorBody

C10_DistinctReferences ==
    /\ \A a, b \in returned : a.id # b.id => a.fundReference # b.fundReference
    /\ \A p, q \in pending :
          (p.kind = "request" /\ q.kind = "request" /\ p.id # q.id) =>
              p.funding.fundReference # q.funding.fundReference
    /\ \A p \in pending : \A a \in returned :
          p.kind = "request" => p.funding.fundReference # a.fundReference
    /\ \A p \in pending :
          p.kind = "request" => p.request.data.reference = p.funding.fundReference
    /\ last.kind = "request" =>
          last.op.request.data.reference = last.result.value.fundReference

\* C10 witness: two requests with the same input have returned, one of them
\* after a failed call.
C10_Witness ==
    /\ last.kind = "request" /\ last.call.threw
    /\ \E a, b \in returned : a.id # b.id /\ a.input = b.input


\* The code of the first pattern of the list that matches, "0" when none does.
RECURSIVE FirstMatch(_, _)
FirstMatch(msisdn, carriers) ==
    IF carriers = <<>> THEN "0"
    ELSE IF RegexTest(msisdn, Head(carriers).patterns, Head(carriers).atEnd)
    THEN Head(carriers).code
    ELSE FirstMatch(msisdn, Tail(carriers))

CarrierList(airtime) ==
    IF ~airtime
    THEN << [patterns |-> SafaricomPatterns, atEnd |-> TRUE,  code |-> "MPESA"],
            [patterns |-> AirtelPatterns,    atEnd |-> TRUE,  code |-> "AIRTELMONEY"],
            [patterns |-> TelkomPatterns,    atEnd |-> FALSE, code |-> "TKASH"],
            [patterns |-> EquitelPatterns,   atEnd |-> FALSE, code |-> "EQUITEL"] >>
    ELSE << [patterns |-> SafaricomPatterns, atEnd |-> TRUE,  code |-> "SAFARICOM"],
            [patterns |-> AirtelPatterns,    atEnd |-> TRUE,  code |-> "AIRTEL"],
            [patterns |-> TelkomPatterns,    atEnd |-> FALSE, code |-> "TELKOM"] >>

\* C11: serviceProvider is the first-match classification: Safaricom, Airtel,
\* Telkom, Equitel in that order without airtime, Safaricom, Airtel, Telkom with
\* airtime, "0" when none matches; with airtime the result is never "EQUITEL"
\* and a number matching only the Equitel pattern yields "0"; "0712345678" is
\* MPESA, "0763123456" is EQUITEL without airtime and "0" with airtime.
C11_FirstMatchClassification ==
    last.kind = "serviceProvider" =>
        /\ last.result = FirstMatch(last.msisdn, CarrierList(last.airtime))
        /\ last.airtime => last.result # "EQUITEL"
        /\ (/\ last.airtime /\ equitel(last.msisdn) /\ ~safaricom(last.msisdn)
            /\ ~airtel(last.msisdn) /\ ~telkom(last.msisdn)) => last.result = "0"
        /\ (last.msisdn = "0712345678" /\ ~last.airtime) => last.result = "MPESA"
        /\ (last.msisdn = "0763123456" /\ ~last.airtime) => last.result = "EQUITEL"
        /\ (last.msisdn = "0763123456" /\ last.airtime) => last.result = "0"
        /\ last.msisdn \in {"", "abcdefghij", "0612345678"} => last.result = "0"

\* C11 witness: the Equitel number of the example was classified with airtime.
C11_Witness ==
    /\ last.kind = "serviceProvider" /\ last.msisdn = "0763123456" /\ last.airtime
    /\ last.result = "0"

\* The id and the value of each parameter of a list, in order.
IdsAndValues(parameters) ==
    [i \in 1..Len(parameters) |-> <<parameters[i].id, parameters[i].value>>]

\* The request entries known to the model: awaiting their call, or just returned.
RequestEntries ==
    {p \in pending : p.kind = "request"}
    \cup (IF last.kind = "request" THEN {last.op} ELSE {})

\* The payload of a request entry is the one the claim describes, for the
\* result URL held by the instance.
WirePayloadAsSpecified(p) ==
    LET payload == p.request.data IN
    /\ payload.commandId = "CustomerPayment"
    /\ payload.serviceProviderId = p.input.serviceProviderId
    /\ IdsAndValues(payload.requestParameters) =
          << <<"merchantWallet", p.input.merchantWallet>>,
             <<"accountNumber", p.input.mobileNumber>>,
             <<"amount", p.input.amount>> >>
    /\ IdsAndValues(payload.referenceParameters) = << <<"resultUrl", c2b.resultUrl>> >>

\* C12: the wire payload request passes to call has commandId
\* "CustomerPayment", the input's serviceProviderId, exactly the three request
\* parameters merchantWallet, accountNumber (the mobile number), amount in that
\* order, and exactly one reference parameter resultUrl whose value is the
\* result URL given at construction (stored by the constructor and never
\* changed afterwards).
C12_WirePayload ==
    /\ [](\A p \in RequestEntries : WirePayloadAsSpecified(p))
    /\ [][/\ (client = "none" /\ client' = "ready") => c2b'.resultUrl = last'.args[2]
          /\ client = "ready" => c2b' = c2b]_vars

\* C12 witness: a request built on an instance constructed with the second
\* result URL has been handed to call.
C12_Witness ==
    /\ c2b # EmptyObject /\ c2b.resultUrl = "https://merchant.example/b"
    /\ \E p \in pending : p.kind = "request" /\ p.input.amount = "250"
                           /\ p.request.data.referenceParameters[1].value = c2b.resultUrl

\* The call of the request that just returned failed, or it returned a body
\* (null) on which the processing of the response failed.
RequestFailed ==
    /\ last.kind = "request"
    /\ last.call.threw \/ IsNullBody(last.call.value)

IdentifyingFields == {"fundReference", "serviceProvider", "accountNumber", "amount"}

OutcomeFields == {"jsonResponse", "transactionId", "responseStatus", "responseMessage"}

\* The funding object of a request entry is as request creates it.
CreatedWithNulls(p) ==
    /\ DOMAIN p.funding = IdentifyingFields \cup OutcomeFields
    /\ \A k \in OutcomeFields : p.funding[k] = Null
    /\ p.funding.fundReference = p.request.data.reference
    /\ p.funding.serviceProvider = p.input.serviceProviderId
    /\ p.funding.accountNumber = p.input.mobileNumber
    /\ p.funding.amount = p.input.amount

\* C14: the FundingResult is created with jsonResponse, transactionId,
\* responseStatus and responseMessage null and stays so while the call is
\* awaited; it is mutated once, when the call has resolved or failed, before it
\* is returned: the returned object differs from the created one, fundReference,
\* serviceProvider, accountNumber and amount are as created (the input's), and
\* on the failure path only responseStatus and responseMessage were written:
\* jsonResponse and transactionId are still null.
C14_FundingMutatedOnce ==
    /\ \A p \in RequestEntries : CreatedWithNulls(p)
    /\ last.kind = "request" =>
          LET created == last.op.funding
              funding == last.result.value
          IN  /\ DOMAIN funding = DOMAIN created
              /\ funding # created
              /\ \A k \in IdentifyingFields : funding[k] = created[k]
              /\ RequestFailed =>
                    /\ funding.jsonResponse = Null /\ funding.transactionId = Null
                    /\ funding.responseStatus # Null /\ funding.responseMessage # Null
              /\ ~RequestFailed => funding.jsonResponse # Null

\* C14 witness: a request whose call was answered with status 501 returned its
\* funding object with the outcome written and the other fields as created.
C14_Witness ==
    /\ last.kind = "request" /\ last.outcome.kind = "response"
    /\ last.outcome.status = 501
    /\ last.result.value.responseStatus = "500"
    /\ last.result.value.jsonResponse = Null
    /\ last.result.value.amount = last.op.input.amount

\* Token requests handed to the transport so far.
TokenRequests == Len(SelectSeq(sent, LAMBDA k : k = "token"))

\* C15: nothing is retried.  A request is handed to the transport only by the
\* constructor (the token request) and by an invocation of call or request, one
\* each; an operation that settles, with success or failure, hands over nothing
\* and is no longer awaited.  The one request of a C2B request is the one call
\* builds for the configured endpoint, method POST and the wire payload as
\* body.  An instance has issued exactly one token request, whatever became of it.
C15_NothingRetried ==
    /\ [](client = "ready" => TokenRequests = 1)
    /\ [](client # "ready" => sent = <<>>)
    /\ [](\A p \in RequestEntries :
            /\ p.request = callRequest(p.tokenAtCall, c2b.endpoint, p.options, "POST")
            /\ p.request.url = c2b.endpoint /\ p.request.method = "POST"
            /\ p.request.data = requestPayload(p.input, c2b.resultUrl,
                                               p.funding.fundReference))
    /\ [][/\ sent' # sent =>
                /\ Len(sent') = Len(sent) + 1 /\ SubSeq(sent', 1, Len(sent)) = sent
                /\ last'.kind \in {"construct", "dispatch"}
                /\ \E p \in pending' \ pending :
                      /\ pending' = pending \cup {p}
                      /\ p.id = Len(sent') /\ p.kind = sent'[Len(sent')]
          /\ last'.kind \in {"token", "call", "request"} =>
                /\ sent' = sent
                /\ last'.op \in pending /\ pending' = pending \ {last'.op}
          /\ \A p \in pending : \A q \in pending' : (p.id = q.id) => (p = q)
         ]_vars

\* C15 witness: the token request failed, then a call failed, and the
\* transport was handed these two requests and no other.
C15_Witness ==
    /\ TokenState = "Failed" /\ accessToken = Undefined
    /\ last.kind = "call" /\ last.result.threw
    /\ sent = <<"token", "call">> /\ pending = {}

\* A call or request issued after token acquisition failed.
IssuedAfterFailure(p) ==
    p.kind # "token" /\ ~p.fetchInFlight /\ TokenState = "Failed"

\* A user may issue a call now.
CallEnabled == ENABLED (\E in \in CallInputs : Call(in[1], in[2], in[3]))

\* Token acquisition fails and nothing but the end of the fetch is to be seen:
\* the instance, its configuration and its other requests are as before.
FailureUnobserved ==
    (last'.kind = "token" /\ last'.result.rejected) =>
        /\ client = "ready" /\ client' = "ready" /\ TokenState' = "Failed"
        /\ accessToken' = Undefined
        /\ pending' = pending \ {last'.op}
        /\ UNCHANGED <<config, c2b, sent, uuids, returned>>

\* C16 as stated: after token acquisition has failed the token stays unset and
\* every later call is still dispatched, without an Authorization header, and
\* returns or raises according to its own response only.
C16_NoAuthorizationAfterFailure ==
    /\ TokenState = "Failed" => accessToken = Undefined
    /\ \A p \in pending : IssuedAfterFailure(p) => ~HasAuthorization(p.request)
    /\ (last.kind = "call" /\ IssuedAfterFailure(last.op)) =>
          (~last.result.threw <=> Resolves(last.outcome))

\* C16 amended: a failed token acquisition (an error response, no response, a
\* request that could not be sent, or a body that cannot be read) is observed
\* neither by the constructor, which has returned, nor by any later call or
\* request: the instance stays usable, the token stays unset for ever, and every
\* later call is still dispatched with exactly the caller's headers (no Bearer
\* header; an Authorization header only if the caller's options supplied one,
\* never for a C2B request) and returns or raises according to its own response
\* only.
C16_FailureUnobserved ==
    /\ [](TokenState = "Failed" => accessToken = Undefined /\ tokenWrites = 0)
    /\ []((TokenState = "Failed" /\ UserOps < MaxOps) => CallEnabled)
    /\ [](\A p \in pending :
            IssuedAfterFailure(p) =>
                /\ p.request.headers = CallerHeaders(p.options)
                /\ p.kind = "request" => ~HasAuthorization(p.request))
    /\ []((last.kind = "call" /\ IssuedAfterFailure(last.op)) =>
            /\ ~last.result.threw <=> Resolves(last.outcome)
            /\ ~last.result.threw => last.result.value = last.outcome.data)
    /\ [][FailureUnobserved /\ (TokenState = "Failed" => TokenState' = "Failed")]_vars

\* C16 witness: token acquisition failed for want of a response; a call issued
\* afterwards with the caller's own Authorization header was dispatched with it
\* and returned the body of its response.
C16_Witness ==
    /\ TokenState = "Failed"
    /\ last.kind = "call" /\ IssuedAfterFailure(last.op)
    /\ HasAuthorization(last.op.request)
    /\ last.op.request.headers = last.op.options.headers
    /\ ~last.result.threw

\* The token request entries known to the model: in flight, or just settled.
TokenEntries ==
    {p \in pending : p.kind = "token"}
    \cup (IF last.kind = "token" THEN {last.op} ELSE {})

\* C17: the token request is the first request handed to the transport and the
\* only token request: when the constructor returns it is the one request
\* handed over, so every call or request of a user comes after it; it is the
\* request call builds for the token URL with method POST from the token
\* options, with the token unset, and it has no Bearer Authorization header
\* (no Authorization header at all: the credentials travel in auth).
C17_TokenRequestFirst ==
    /\ sent # <<>> => (sent[1] = "token" /\ \A i \in 2..Len(sent) : sent[i] # "token")
    /\ \A p \in pending : (p.kind = "token") <=> (p.id = 1)
    /\ (last.kind = "construct" /\ ~last.threw) =>
          (sent = <<"token">> /\ Cardinality(pending) = 1 /\ TokenEntries = pending)
    /\ last.kind = "dispatch" => (last.id > 1 /\ sent[1] = "token")
    /\ \A p \in TokenEntries :
          /\ p.id = 1
          /\ p.tokenAtCall = Undefined
          /\ p.request = callRequest(Undefined, TokenUrl, p.options, "POST")
          /\ p.options = tokenRequestOptions(config)
          /\ p.request.url = "accounts/v1/oauth/token" /\ p.request.method = "POST"
          /\ p.request.auth = [username |-> config.clientId,
                               password |-> config.clientSecret]
          /\ ~HasAuthorization(p.request)

\* C17 witness: the token request, without Authorization header, is still in
\* flight when a call and a request of the user have been handed over after it.
C17_Witness ==
    /\ sent = <<"token", "call", "request">>
    /\ \E p \in pending : p.kind = "token" /\ ~HasAuthorization(p.request)
    /\ \E q \in pending : q.kind = "request" /\ q.id = 3

\* The token endpoint answered with an accepted status and a body without
\* access_token.
AnsweredWithoutToken ==
    /\ last.kind = "token" /\ Resolves(last.outcome)
    /\ IsNullBody(last.outcome.data) \/ "access_token" \notin DOMAIN last.outcome.data

\* A call or request issued after the token fetch ended with the token unset.
IssuedWithoutToken(p) ==
    p.kind # "token" /\ ~p.fetchInFlight /\ ~Truthy(p.tokenAtCall)

\* C18 as stated: when the token endpoint answers with a status in [200,500]
\* and a body without access_token, token acquisition raises nothing and the
\* token remains unset, so every later call has no Authorization header; the
\* token is set only by a body with a non-empty access_token.
C18_NoTokenNoAuthorization ==
    /\ AnsweredWithoutToken => (~last.result.rejected /\ ~Truthy(accessToken))
    /\ \A p \in pending : IssuedWithoutToken(p) => ~HasAuthorization(p.request)
    /\ (last.kind = "token" /\ Truthy(accessToken)) =>
          (/\ Resolves(last.outcome) /\ ~IsNullBody(last.outcome.data)
           /\ Truthy(Prop(last.outcome.data, "access_token")))

\* C18 amended: when the token endpoint answers with a status in [200,500] and
\* a body that is an object without access_token (an error body, say), token
\* acquisition raises nothing and the token remains unset; when the body is
\* null, acquisition ends with a TypeError nobody observes and the token
\* remains unset too.  Every later call then adds no Bearer header: its headers
\* are exactly the caller's (no Authorization header but one the caller's own
\* options supplied).  The token becomes set only when the token request is
\* answered with an accepted status and a body with a non-empty access_token,
\* which becomes the token.
C18_TokenSetOnlyByAccessToken ==
    /\ [](AnsweredWithoutToken =>
            /\ ~Truthy(accessToken) /\ accessToken = Undefined
            /\ last.result.rejected <=> IsNullBody(last.outcome.data)
            /\ last.result.rejected => last.result.error.name = "TypeError")
    /\ [](\A p \in pending :
            IssuedWithoutToken(p) => p.request.headers = CallerHeaders(p.options))
    /\ [][(Truthy(accessToken') /\ accessToken' # accessToken) =>
             /\ last'.kind = "token" /\ Resolves(last'.outcome)
             /\ ~IsNullBody(last'.outcome.data)
             /\ Truthy(Prop(last'.outcome.data, "access_token"))
             /\ accessToken' = last'.outcome.data.access_token]_vars

\* C18 witness: the token endpoint answered with a body without access_token;
\* the fetch ended without error and without token, and a call issued
\* afterwards went out without Authorization header.
C18_Witness ==
    /\ tokenWrites = 1 /\ accessToken = Undefined
    /\ \E p \in pending : /\ IssuedWithoutToken(p) /\ p.kind = "call"
                          /\ ~HasAuthorization(p.request)
    /\ last.kind = "dispatch"

\* The names of the headers of an object other than Authorization.
OtherHeaders(headers) == DOMAIN headers \ {"Authorization"}

\* C19: in the request call builds, url and method are the arguments, whatever
\* url and method the caller's options hold; every other option and every
\* header of the caller other than Authorization is passed through unchanged
\* and no other header is added; a caller's Authorization header is replaced by
\* 'Bearer <token>' when the token is set and passed through unchanged when it
\* is not; the caller's options are afterwards as the caller passed them.
C19_ArgumentsOverrideOptions ==
    \A p \in pending :
        LET caller == CallerHeaders(p.options) IN
        /\ p.request.url = p.url /\ p.request.method = p.method
        /\ DOMAIN p.request = DOMAIN p.options \cup {"url", "method", "headers"}
        /\ \A k \in DOMAIN p.options \ {"url", "method", "headers"} :
              p.request[k] = p.options[k]
        /\ OtherHeaders(p.request.headers) = OtherHeaders(caller)
        /\ \A h \in OtherHeaders(caller) : p.request.headers[h] = caller[h]
        /\ "Authorization" \in DOMAIN caller =>
              /\ HasAuthorization(p.request)
              /\ p.request.headers.Authorization =
                    (IF Truthy(p.tokenAtCall) THEN "Bearer " \o p.tokenAtCall
                     ELSE caller.Authorization)
        /\ p.kind = "call" => <<p.url, p.options, p.method>> \in CallInputs

\* C19 witness: with the token set, a call whose options hold another url and
\* method went out with the arguments, and a call whose options hold an
\* Authorization header went out with the Bearer header instead.
C19_Witness ==
    \E p, q \in pending :
        /\ p.kind = "call" /\ "url" \in DOMAIN p.options
        /\ p.options.url # p.url /\ p.request.url = p.url
        /\ p.options.method # p.method /\ p.request.method = p.method
        /\ p.request.headers.Accept = "application/json"
        /\ q.kind = "call" /\ Truthy(q.tokenAtCall)
        /\ "Authorization" \in DOMAIN CallerHeaders(q.options)
        /\ q.request.headers.Authorization = "Bearer " \o q.tokenAtCall
        /\ q.options.headers.Authorization # q.request.headers.Authorization

====
